---- MODULE Spec2Model ----
(***************************************************************************)
(* Model of the ConsolePage session orchestration (okland/openai-realtime- *)
(* console): connection lifecycle, turn mode, push-to-talk, text messages, *)
(* remote event handlers and the event log.                                *)
(*                                                                         *)
(* Every async handler of the component is a process with a program        *)
(* counter that names the await it is suspended at.  One step of a handler *)
(* is: the resolution of the awaited call (the adapter's state change),    *)
(* followed by the synchronous code up to and including the next awaited   *)
(* call (whose precondition is checked at the call).  A call that throws   *)
(* rejects the handler's promise; nothing in the component catches it, so  *)
(* the handler simply ends there.                                          *)
(*                                                                         *)
(* React state (useState) is read by a handler from the closure of the     *)
(* latest render, i.e. the committed value at the time the handler is      *)
(* invoked.  Presentational state (isChatOpen, recordingDuration, canvas)  *)
(* is left out.                                                            *)
(***************************************************************************)
EXTENDS Integers, Sequences, FiniteSets, TLC

\* ---------------------------------------------------------------- bounds
MaxInFlight == 2      \* handlers suspended at an await at the same time
MaxTimers == 2        \* duration intervals alive at the same time
MaxFed == 4           \* events fed to the event log
MaxItems == 2         \* conversation items held by the remote client

\* ---------------------------------------------------------------- inputs
EventTypes == {"input_audio_buffer.append", "response.audio.delta", "session.update"}
ItemIds == <<"t1", "t2", "t3", "t4">>   \* ids of the items, in order of creation
NoTrack == "none"
Offsets == {0, 500}
TurnValues == {"none", "server_vad"}
SPACE == " "
Texts == {<< >>, <<SPACE>>, <<"h", "i">>}

VARIABLES
  \* React state of the component
  isConnected, isRecording, isVADMode, isListening, textMessage,
  items, memoryKv, realtimeEvents,
  emailContent,      \* the email draft: [subject, body]
  timerRef,          \* recordingTimer.current: "null" | "live" | "cleared"
  timers,            \* number of setInterval timers still running
  mounted,           \* the component is mounted (effect cleanup not yet run)
  \* WavRecorder
  processor,         \* a capture session exists (begin resolved, no end since)
  recording,         \* the recorder's recording flag
  \* WavStreamPlayer
  playerConnected,   \* connect() has resolved
  track,             \* the track being played, NoTrack when no stream
  \* RealtimeClient
  clientOpen,        \* the remote session is open
  turnDetection,     \* session config turn_detection: "none" | "server_vad"
  clientItems,       \* client.conversation items (canonical list)
  \* handlers: the await each is suspended at ("idle" when not running)
  pcConn, pcDisc, pcTurn, turnValue, pcPtt, pcPttEnd, pcSend, sendText,
  pcToggle, pcIntr, intrResult, pcUpd, updItems,
  \* observation of the run (history)
  lastStep,          \* the handler step that produced this state
  lastCalls,         \* adapter calls made by the latest step, with device status
  lastTool,          \* the tool call served by the latest step, with its return value
  connHist,          \* progress of the connect button's handlers
  pttHist,           \* progress of a push-to-talk press/release pair
  respCount,         \* createResponse requests since the last press
  intrTrace,         \* adapter calls of the latest 'conversation.interrupted' handler
  fed                \* event types fed to the log since it was last empty

uiVars == <<isConnected, isRecording, isVADMode, isListening, textMessage,
            items, memoryKv, realtimeEvents, emailContent, timerRef, timers, mounted>>
recVars == <<processor, recording>>
playerVars == <<playerConnected, track>>
clientVars == <<clientOpen, turnDetection, clientItems>>
pcVars == <<pcConn, pcDisc, pcTurn, turnValue, pcPtt, pcPttEnd, pcSend, sendText,
            pcToggle, pcIntr, intrResult, pcUpd, updItems>>
histVars == <<lastStep, lastCalls, lastTool, connHist, pttHist, respCount, intrTrace, fed>>
vars == <<uiVars, recVars, playerVars, clientVars, pcVars, histVars>>

\* ------------------------------------------------------------- adapters
\* WavRecorder.getStatus()
RecStatus(p, r) == IF ~p THEN "ended" ELSE IF ~r THEN "paused" ELSE "recording"

\* begin() throws when a session exists
CanBegin(p) == ~p
\* record() throws when no session exists or when already recording
CanRecord(p, r) == p /\ ~r
\* pause() throws when no session exists or when not recording
CanPause(p, r) == p /\ r
\* end() throws when no session exists
CanEnd(p) == p

\* RealtimeClient.connect() throws when already connected
CanClientConnect(open) == ~open
\* realtime.send() throws when the session is not open
CanSend(open) == open

NoResult == [present |-> FALSE, trackId |-> NoTrack, offset |-> 0]
\* WavStreamPlayer.interrupt(): the results the player can produce for a track
InterruptResults(t) ==
  IF t = NoTrack
    THEN {NoResult} \cup {[present |-> TRUE, trackId |-> NoTrack, offset |-> o] : o \in Offsets}
    ELSE {[present |-> TRUE, trackId |-> t, offset |-> o] : o \in Offsets}

\* an adapter call as observed: the device, the method, the device's status at the call
RecCall(op, p, r) == [dev |-> "recorder", op |-> op, st |-> RecStatus(p, r)]
CliCall(op, open) == [dev |-> "client", op |-> op, st |-> IF open THEN "open" ELSE "closed"]
PlayCall(op, t) == [dev |-> "player", op |-> op, st |-> IF t = NoTrack THEN "idle" ELSE "playing"]

\* ---------------------------------------------------------------- helpers
\* useState initial values of memoryKv and emailContent: lines 104, 107-110
EmptyKv == [k \in {} |-> ""]
EmptyDraft == [subject |-> "", body |-> ""]
NoTool == [name |-> "none", key |-> "", value |-> "", old |-> "", ret |-> ""]

\* a step of a handler that serves no tool call and leaves the draft alone
Step(name) == lastStep' = name /\ lastTool' = NoTool /\ UNCHANGED emailContent
Count(b) == IF b THEN 1 ELSE 0
InFlight ==
  Count(pcConn # "idle") + Count(pcDisc # "idle") + Count(pcTurn # "idle")
  + Count(pcPtt # "idle") + Count(pcPttEnd # "idle") + Count(pcSend # "idle")
  + Count(pcToggle # "idle") + Count(pcIntr # "idle") + Count(pcUpd # "idle")
CanSuspend == InFlight < MaxInFlight

\* any other user action or remote event breaks a press/release pair
BreakPtt == pttHist' = "off" /\ respCount' = 0
\* steps of handlers already running leave the pair as it is
KeepPtt == UNCHANGED <<pttHist, respCount>>

\* String.prototype.trim on a sequence of characters
RECURSIVE TrimLeft(_)
TrimLeft(s) == IF s # << >> /\ Head(s) = SPACE THEN TrimLeft(Tail(s)) ELSE s
RECURSIVE TrimRight(_)
TrimRight(s) ==
  IF s # << >> /\ s[Len(s)] = SPACE THEN TrimRight(SubSeq(s, 1, Len(s) - 1)) ELSE s
Trim(s) == TrimRight(TrimLeft(s))

Init ==
  /\ isConnected = FALSE /\ isRecording = FALSE /\ isVADMode = FALSE
  /\ isListening = FALSE /\ textMessage = << >>
  /\ items = << >> /\ memoryKv = EmptyKv /\ realtimeEvents = << >>
  /\ emailContent = EmptyDraft
  /\ timerRef = "null" /\ timers = 0 /\ mounted = TRUE
  /\ processor = FALSE /\ recording = FALSE
  /\ playerConnected = FALSE /\ track = NoTrack
  /\ clientOpen = FALSE /\ turnDetection = "none" /\ clientItems = << >>
  /\ pcConn = "idle" /\ pcDisc = "idle" /\ pcTurn = "idle" /\ turnValue = "none"
  /\ pcPtt = "idle" /\ pcPttEnd = "idle" /\ pcSend = "idle" /\ sendText = << >>
  /\ pcToggle = "idle" /\ pcIntr = "idle" /\ intrResult = NoResult
  /\ pcUpd = "idle" /\ updItems = << >>
  /\ lastStep = "Init" /\ lastCalls = << >> /\ lastTool = NoTool /\ connHist = "none" /\ pttHist = "off" /\ respCount = 0
  /\ intrTrace = << >> /\ fed = << >>

\* ------------------------------------------------- connectConversation
\* the handler's promise settles: only a handler that ran alone reports an outcome
ConnSettle(outcome) == connHist' = IF connHist = "connecting" THEN outcome ELSE connHist
DiscSettle(outcome) == connHist' = IF connHist = "disconnecting" THEN outcome ELSE connHist

\* connect button pressed while the UI shows disconnected: lines 151-163
ConnStart ==
  /\ Step("ConnStart")
  /\ mounted /\ pcConn = "idle" /\ ~isConnected /\ CanSuspend
  /\ isConnected' = TRUE
  /\ realtimeEvents' = << >> /\ fed' = << >>
  /\ items' = clientItems
  /\ lastCalls' = <<RecCall("begin", processor, recording)>>
  /\ IF CanBegin(processor)
       THEN /\ pcConn' = "begin"
            /\ connHist' = IF pcDisc = "idle" THEN "connecting" ELSE "mixed"
       ELSE /\ pcConn' = "idle"
            /\ connHist' = IF pcDisc = "idle" THEN "connectFailed" ELSE "mixed"
  /\ BreakPtt
  /\ UNCHANGED <<isRecording, isVADMode, isListening, textMessage, memoryKv,
                 timerRef, timers, mounted, recVars, playerVars, clientVars,
                 pcDisc, pcTurn, turnValue, pcPtt, pcPttEnd, pcSend, sendText,
                 pcToggle, pcIntr, intrResult, pcUpd, updItems,
                 intrTrace>>

\* wavRecorder.begin() settles; then wavStreamPlayer.connect() is awaited: 163-166
ConnBeginResolved(ok) ==
  /\ Step("ConnBeginResolved")
  /\ pcConn = "begin"
  /\ IF ok
       THEN /\ processor' = TRUE
            /\ pcConn' = "playerConnect"
            /\ lastCalls' = <<PlayCall("connect", track)>>
            /\ UNCHANGED connHist
       ELSE /\ pcConn' = "idle"
            /\ lastCalls' = << >>
            /\ ConnSettle("connectFailed")
            /\ UNCHANGED processor
  /\ KeepPtt
  /\ UNCHANGED <<uiVars, recording, playerVars, clientVars,
                 pcDisc, pcTurn, turnValue, pcPtt, pcPttEnd, pcSend, sendText,
                 pcToggle, pcIntr, intrResult, pcUpd, updItems,
                 intrTrace, fed>>

\* wavStreamPlayer.connect() resolves; then client.connect() is awaited: 166-169
ConnPlayerResolved ==
  /\ Step("ConnPlayerResolved")
  /\ pcConn = "playerConnect"
  /\ playerConnected' = TRUE
  /\ lastCalls' = <<CliCall("connect", clientOpen)>>
  /\ IF CanClientConnect(clientOpen)
       THEN pcConn' = "clientConnect" /\ UNCHANGED connHist
       ELSE pcConn' = "idle" /\ ConnSettle("remoteFailed")
  /\ KeepPtt
  /\ UNCHANGED <<uiVars, recVars, track, clientVars,
                 pcDisc, pcTurn, turnValue, pcPtt, pcPttEnd, pcSend, sendText,
                 pcToggle, pcIntr, intrResult, pcUpd, updItems,
                 intrTrace, fed>>

\* client.connect() settles; then the greeting and the default turn mode: 169-178
ConnClientResolved(ok) ==
  /\ Step("ConnClientResolved")
  /\ pcConn = "clientConnect"
  /\ pcConn' = "idle"
  /\ IF ok
       THEN /\ clientOpen' = TRUE
            /\ turnDetection' = "none"
            /\ lastCalls' = <<CliCall("sendUserMessageContent", TRUE),
                              CliCall("updateSession", TRUE)>>
            /\ ConnSettle("connected")
       ELSE /\ lastCalls' = << >>
            /\ ConnSettle("remoteFailed")
            /\ UNCHANGED <<clientOpen, turnDetection>>
  /\ KeepPtt
  /\ UNCHANGED <<uiVars, recVars, playerVars, clientItems,
                 pcDisc, pcTurn, turnValue, pcPtt, pcPttEnd, pcSend, sendText,
                 pcToggle, pcIntr, intrResult, pcUpd, updItems,
                 intrTrace, fed>>

\* ---------------------------------------------- disconnectConversation
\* DiscStart without the client.disconnect() of line 134
DiscStartNoClientDisconnect ==
  /\ Step("DiscStart")
  /\ mounted /\ pcDisc = "idle" /\ isConnected /\ CanSuspend
  /\ isConnected' = FALSE
  /\ realtimeEvents' = << >> /\ fed' = << >>
  /\ items' = << >>
  /\ memoryKv' = EmptyKv
  /\ lastCalls' = <<RecCall("end", processor, recording)>>
  /\ IF CanEnd(processor)
       THEN /\ pcDisc' = "end"
            /\ connHist' = IF pcConn = "idle" THEN "disconnecting" ELSE "cancelled"
       ELSE /\ pcDisc' = "idle"
            /\ connHist' = IF pcConn = "idle" THEN "disconnectFailed" ELSE "cancelled"
  /\ BreakPtt
  /\ UNCHANGED <<isRecording, isVADMode, isListening, textMessage,
                 timerRef, timers, mounted, recVars, playerVars, clientVars,
                 pcConn, pcTurn, turnValue, pcPtt, pcPttEnd, pcSend, sendText,
                 pcToggle, pcIntr, intrResult, pcUpd, updItems,
                 intrTrace>>

\* connect button pressed while the UI shows connected: lines 148-149, 127-137
DiscStart ==
  /\ Step("DiscStart")
  /\ mounted /\ pcDisc = "idle" /\ isConnected /\ CanSuspend
  /\ isConnected' = FALSE
  /\ realtimeEvents' = << >> /\ fed' = << >>
  /\ items' = << >>
  /\ memoryKv' = EmptyKv
  /\ clientOpen' = FALSE
  /\ clientItems' = << >>
  /\ lastCalls' = <<CliCall("disconnect", clientOpen), RecCall("end", processor, recording)>>
  /\ IF CanEnd(processor)
       THEN /\ pcDisc' = "end"
            /\ connHist' = IF pcConn = "idle" THEN "disconnecting" ELSE "cancelled"
       ELSE /\ pcDisc' = "idle"
            /\ connHist' = IF pcConn = "idle" THEN "disconnectFailed" ELSE "cancelled"
  /\ BreakPtt
  /\ UNCHANGED <<isRecording, isVADMode, isListening, textMessage,
                 timerRef, timers, mounted, recVars, playerVars, turnDetection,
                 pcConn, pcTurn, turnValue, pcPtt, pcPttEnd, pcSend, sendText,
                 pcToggle, pcIntr, intrResult, pcUpd, updItems,
                 intrTrace>>

\* wavRecorder.end() resolves; then wavStreamPlayer.interrupt() is awaited: 137-140
DiscEndResolved ==
  /\ Step("DiscEndResolved")
  /\ pcDisc = "end"
  /\ processor' = FALSE /\ recording' = FALSE
  /\ lastCalls' = <<PlayCall("interrupt", track)>>
  /\ track' = NoTrack
  /\ pcDisc' = "interrupt"
  /\ KeepPtt
  /\ UNCHANGED <<uiVars, playerConnected, clientVars,
                 pcConn, pcTurn, turnValue, pcPtt, pcPttEnd, pcSend, sendText,
                 pcToggle, pcIntr, intrResult, pcUpd, updItems,
                 connHist, intrTrace, fed>>

\* wavStreamPlayer.interrupt() resolves; the handler returns: 140-141
DiscInterruptResolved ==
  /\ Step("DiscInterruptResolved")
  /\ pcDisc = "interrupt"
  /\ pcDisc' = "idle"
  /\ lastCalls' = << >>
  /\ DiscSettle("disconnected")
  /\ KeepPtt
  /\ UNCHANGED <<uiVars, recVars, playerVars, clientVars,
                 pcConn, pcTurn, turnValue, pcPtt, pcPttEnd, pcSend, sendText,
                 pcToggle, pcIntr, intrResult, pcUpd, updItems,
                 intrTrace, fed>>

\* effect cleanup on unmount: client.reset(): lines 491-494
Teardown ==
  /\ Step("Teardown")
  /\ mounted
  /\ mounted' = FALSE
  /\ clientOpen' = FALSE
  /\ turnDetection' = "none"
  /\ clientItems' = << >>
  /\ lastCalls' = <<CliCall("reset", clientOpen)>>
  /\ connHist' = IF pcConn # "idle" THEN "cancelled" ELSE "unmounted"
  /\ BreakPtt
  /\ UNCHANGED <<isConnected, isRecording, isVADMode, isListening, textMessage,
                 items, memoryKv, realtimeEvents, timerRef, timers,
                 recVars, playerVars, pcVars, intrTrace, fed>>

\* ---------------------------------------------------- changeTurnEndType
\* lines 191-203: the session update, the mode flag, then record or pause.
\* r is the recorder's recording flag when this code runs.
TurnBody(value, r) ==
  /\ turnDetection' = value
  /\ isVADMode' = (value = "server_vad")
  /\ IF value = "server_vad" /\ clientOpen
       THEN /\ isListening' = TRUE
            /\ lastCalls' = <<CliCall("updateSession", clientOpen),
                              RecCall("record", processor, r)>>
            /\ pcTurn' = IF CanRecord(processor, r) THEN "record" ELSE "idle"
       ELSE /\ isListening' = FALSE
            /\ lastCalls' = <<CliCall("updateSession", clientOpen),
                              RecCall("pause", processor, r)>>
            /\ pcTurn' = IF CanPause(processor, r) THEN "pause" ELSE "idle"

\* changeTurnEndType without the awaited pause of line 189
TurnStartNoPauseFirst(value) ==
  /\ Step("TurnStart")
  /\ mounted /\ pcTurn = "idle" /\ CanSuspend
  /\ turnValue' = value
  /\ TurnBody(value, recording)
  /\ BreakPtt
  /\ UNCHANGED <<isConnected, isRecording, textMessage, items, memoryKv,
                 realtimeEvents, timerRef, timers, mounted, recVars, playerVars,
                 clientOpen, clientItems,
                 pcConn, pcDisc, pcPtt, pcPttEnd, pcSend, sendText,
                 pcToggle, pcIntr, intrResult, pcUpd, updItems,
                 connHist, intrTrace, fed>>

\* the Toggle calls onChange(_, value): lines 528, 185-203
TurnStart(value) ==
  /\ Step("TurnStart")
  /\ mounted /\ pcTurn = "idle" /\ CanSuspend
  /\ turnValue' = value
  /\ IF value = "none" /\ RecStatus(processor, recording) = "recording"
       THEN /\ pcTurn' = "pauseFirst"
            /\ lastCalls' = <<RecCall("pause", processor, recording)>>
            /\ UNCHANGED <<turnDetection, isVADMode, isListening>>
       ELSE TurnBody(value, recording)
  /\ BreakPtt
  /\ UNCHANGED <<isConnected, isRecording, textMessage, items, memoryKv,
                 realtimeEvents, timerRef, timers, mounted, recVars, playerVars,
                 clientOpen, clientItems,
                 pcConn, pcDisc, pcPtt, pcPttEnd, pcSend, sendText,
                 pcToggle, pcIntr, intrResult, pcUpd, updItems,
                 connHist, intrTrace, fed>>

\* the pause of line 189 resolves; lines 191-203 follow
TurnPauseFirstResolved ==
  /\ Step("TurnPauseFirstResolved")
  /\ pcTurn = "pauseFirst"
  /\ recording' = FALSE
  /\ TurnBody(turnValue, FALSE)
  /\ KeepPtt
  /\ UNCHANGED <<isConnected, isRecording, textMessage, items, memoryKv,
                 realtimeEvents, timerRef, timers, mounted,
                 processor, playerVars, clientOpen, clientItems,
                 pcConn, pcDisc, turnValue, pcPtt, pcPttEnd, pcSend, sendText,
                 pcToggle, pcIntr, intrResult, pcUpd, updItems,
                 connHist, intrTrace, fed>>

\* the record of line 199 settles
TurnRecordResolved(ok) ==
  /\ Step(IF ok THEN "TurnRecordResolved" ELSE "TurnRecordRejected")
  /\ pcTurn = "record"
  /\ pcTurn' = "idle"
  /\ recording' = IF ok THEN TRUE ELSE recording
  /\ lastCalls' = << >>
  /\ KeepPtt
  /\ UNCHANGED <<uiVars, processor, playerVars, clientVars,
                 pcConn, pcDisc, turnValue, pcPtt, pcPttEnd, pcSend, sendText,
                 pcToggle, pcIntr, intrResult, pcUpd, updItems,
                 connHist, intrTrace, fed>>

\* the pause of line 202 resolves
TurnPauseResolved ==
  /\ Step("TurnPauseResolved")
  /\ pcTurn = "pause"
  /\ pcTurn' = "idle"
  /\ recording' = FALSE
  /\ lastCalls' = << >>
  /\ KeepPtt
  /\ UNCHANGED <<uiVars, processor, playerVars, clientVars,
                 pcConn, pcDisc, turnValue, pcPtt, pcPttEnd, pcSend, sendText,
                 pcToggle, pcIntr, intrResult, pcUpd, updItems,
                 connHist, intrTrace, fed>>

\* ------------------------------------------------------- handlePushToTalk
\* mouse down on the push-to-talk button: lines 238-244
PttStart ==
  /\ Step("PttStart")
  /\ mounted /\ pcPtt = "idle" /\ CanSuspend /\ timers < MaxTimers
  /\ IF isConnected /\ ~isVADMode /\ ~isRecording
       THEN /\ pcPtt' = "interrupt"
            /\ lastCalls' = <<PlayCall("interrupt", track)>>
            /\ track' = NoTrack
            /\ pttHist' = IF InFlight = 0 THEN "pressed" ELSE "off"
       ELSE /\ lastCalls' = << >>
            /\ pttHist' = "off"
            /\ UNCHANGED <<pcPtt, track>>
  /\ respCount' = 0
  /\ UNCHANGED <<uiVars, recVars, playerConnected, clientVars,
                 pcConn, pcDisc, pcTurn, turnValue, pcPttEnd, pcSend, sendText,
                 pcToggle, pcIntr, intrResult, pcUpd, updItems,
                 connHist, intrTrace, fed>>

\* stopPlayback() resolves; the flag is set and record() is awaited: 244-247
PttInterruptResolved ==
  /\ Step("PttInterruptResolved")
  /\ pcPtt = "interrupt"
  /\ isRecording' = TRUE
  /\ lastCalls' = <<RecCall("record", processor, recording)>>
  /\ pcPtt' = IF CanRecord(processor, recording) THEN "record" ELSE "idle"
  /\ KeepPtt
  /\ UNCHANGED <<isConnected, isVADMode, isListening, textMessage, items, memoryKv,
                 realtimeEvents, timerRef, timers, mounted,
                 recVars, playerVars, clientVars,
                 pcConn, pcDisc, pcTurn, turnValue, pcPttEnd, pcSend, sendText,
                 pcToggle, pcIntr, intrResult, pcUpd, updItems,
                 connHist, intrTrace, fed>>

\* record() settles; the duration timer is started: 247-250
PttRecordResolved(ok) ==
  /\ Step(IF ok THEN "PttRecordResolved" ELSE "PttRecordRejected")
  /\ pcPtt = "record"
  /\ pcPtt' = "idle"
  /\ IF ok
       THEN recording' = TRUE /\ timerRef' = "live" /\ timers' = timers + 1 /\ KeepPtt
       ELSE BreakPtt /\ UNCHANGED <<recording, timerRef, timers>>
  /\ lastCalls' = << >>
  /\ UNCHANGED <<isConnected, isRecording, isVADMode, isListening, textMessage,
                 items, memoryKv, realtimeEvents, mounted,
                 processor, playerVars, clientVars,
                 pcConn, pcDisc, pcTurn, turnValue, pcPttEnd, pcSend, sendText,
                 pcToggle, pcIntr, intrResult, pcUpd, updItems,
                 connHist, intrTrace, fed>>

\* ---------------------------------------- handlePushToTalkEnd, stopRecording
\* mouse up / mouse leave on the button: lines 255-256, 225-228
PttEndStart ==
  /\ Step("PttEndStart")
  /\ mounted /\ pcPttEnd = "idle" /\ CanSuspend
  /\ IF isRecording
       THEN /\ isRecording' = FALSE
            /\ lastCalls' = <<RecCall("pause", processor, recording)>>
            /\ pcPttEnd' = IF CanPause(processor, recording) THEN "pause" ELSE "idle"
       ELSE /\ lastCalls' = << >>
            /\ UNCHANGED <<isRecording, pcPttEnd>>
  /\ pttHist' = IF pttHist = "pressed" THEN "released" ELSE "off"
  /\ respCount' = IF pttHist = "pressed" THEN respCount ELSE 0
  /\ UNCHANGED <<isConnected, isVADMode, isListening, textMessage, items, memoryKv,
                 realtimeEvents, timerRef, timers, mounted,
                 recVars, playerVars, clientVars,
                 pcConn, pcDisc, pcTurn, turnValue, pcPtt, pcSend, sendText,
                 pcToggle, pcIntr, intrResult, pcUpd, updItems,
                 connHist, intrTrace, fed>>

\* pause() resolves; createResponse(), then the timer is cleared: 228-229, 257-259
PttEndPauseResolved ==
  /\ Step("PttEndPauseResolved")
  /\ pcPttEnd = "pause"
  /\ pcPttEnd' = "idle"
  /\ recording' = FALSE
  /\ lastCalls' = <<CliCall("createResponse", clientOpen)>>
  /\ IF CanSend(clientOpen)
       THEN /\ respCount' = IF pttHist = "off" THEN 0 ELSE respCount + 1
            /\ IF timerRef = "live"
                 THEN timerRef' = "cleared" /\ timers' = timers - 1
                 ELSE UNCHANGED <<timerRef, timers>>
       ELSE UNCHANGED <<respCount, timerRef, timers>>
  /\ UNCHANGED pttHist
  /\ UNCHANGED <<isConnected, isRecording, isVADMode, isListening, textMessage,
                 items, memoryKv, realtimeEvents, mounted,
                 processor, playerVars, clientVars,
                 pcConn, pcDisc, pcTurn, turnValue, pcPtt, pcSend, sendText,
                 pcToggle, pcIntr, intrResult, pcUpd, updItems,
                 connHist, intrTrace, fed>>

\* ------------------------------------------------------- sendTextMessage
\* the text area's onChange: line 568
TypeText(t) ==
  /\ Step("TypeText")
  /\ mounted /\ t # textMessage
  /\ textMessage' = t
  /\ lastCalls' = << >>
  /\ BreakPtt
  /\ UNCHANGED <<isConnected, isRecording, isVADMode, isListening,
                 items, memoryKv, realtimeEvents, timerRef, timers, mounted,
                 recVars, playerVars, clientVars, pcVars, connHist, intrTrace, fed>>

\* Send clicked or Enter pressed: lines 264-266
SendStart ==
  /\ Step("SendStart")
  /\ mounted /\ pcSend = "idle" /\ CanSuspend
  /\ IF isConnected /\ Trim(textMessage) # << >>
       THEN /\ pcSend' = "interrupt"
            /\ sendText' = textMessage
            /\ lastCalls' = <<PlayCall("interrupt", track)>>
            /\ track' = NoTrack
       ELSE /\ lastCalls' = << >>
            /\ UNCHANGED <<pcSend, sendText, track>>
  /\ BreakPtt
  /\ UNCHANGED <<uiVars, recVars, playerConnected, clientVars,
                 pcConn, pcDisc, pcTurn, turnValue, pcPtt, pcPttEnd,
                 pcToggle, pcIntr, intrResult, pcUpd, updItems,
                 connHist, intrTrace, fed>>

\* stopPlayback() resolves; the text is sent and the input cleared: 266-275
SendInterruptResolved ==
  /\ Step("SendInterruptResolved")
  /\ pcSend = "interrupt"
  /\ pcSend' = "idle"
  /\ sendText' = << >>
  /\ lastCalls' = <<CliCall("sendUserMessageContent", clientOpen)>>
  /\ textMessage' = IF CanSend(clientOpen) THEN << >> ELSE textMessage
  /\ KeepPtt
  /\ UNCHANGED <<isConnected, isRecording, isVADMode, isListening,
                 items, memoryKv, realtimeEvents, timerRef, timers, mounted,
                 recVars, playerVars, clientVars,
                 pcConn, pcDisc, pcTurn, turnValue, pcPtt, pcPttEnd,
                 pcToggle, pcIntr, intrResult, pcUpd, updItems,
                 connHist, intrTrace, fed>>

\* --------------------------------------------------------- toggleListening
\* lines 207-217
ToggleStart ==
  /\ Step("ToggleStart")
  /\ mounted /\ pcToggle = "idle" /\ CanSuspend
  /\ isListening' = ~isListening
  /\ IF isListening
       THEN /\ lastCalls' = <<RecCall("pause", processor, recording)>>
            /\ pcToggle' = IF CanPause(processor, recording) THEN "pause" ELSE "idle"
       ELSE /\ lastCalls' = <<RecCall("record", processor, recording)>>
            /\ pcToggle' = IF CanRecord(processor, recording) THEN "record" ELSE "idle"
  /\ BreakPtt
  /\ UNCHANGED <<isConnected, isRecording, isVADMode, textMessage, items, memoryKv,
                 realtimeEvents, timerRef, timers, mounted,
                 recVars, playerVars, clientVars,
                 pcConn, pcDisc, pcTurn, turnValue, pcPtt, pcPttEnd, pcSend, sendText,
                 pcIntr, intrResult, pcUpd, updItems,
                 connHist, intrTrace, fed>>

\* the pause of line 213 resolves; createResponse(): line 214
TogglePauseResolved ==
  /\ Step("TogglePauseResolved")
  /\ pcToggle = "pause"
  /\ pcToggle' = "idle"
  /\ recording' = FALSE
  /\ lastCalls' = <<CliCall("createResponse", clientOpen)>>
  /\ KeepPtt
  /\ UNCHANGED <<uiVars, processor, playerVars, clientVars,
                 pcConn, pcDisc, pcTurn, turnValue, pcPtt, pcPttEnd, pcSend, sendText,
                 pcIntr, intrResult, pcUpd, updItems,
                 connHist, intrTrace, fed>>

\* the record of line 217 settles
ToggleRecordResolved(ok) ==
  /\ Step(IF ok THEN "ToggleRecordResolved" ELSE "ToggleRecordRejected")
  /\ pcToggle = "record"
  /\ pcToggle' = "idle"
  /\ recording' = IF ok THEN TRUE ELSE recording
  /\ lastCalls' = << >>
  /\ KeepPtt
  /\ UNCHANGED <<uiVars, processor, playerVars, clientVars,
                 pcConn, pcDisc, pcTurn, turnValue, pcPtt, pcPttEnd, pcSend, sendText,
                 pcIntr, intrResult, pcUpd, updItems,
                 connHist, intrTrace, fed>>

\* ------------------------------------------ client.on('conversation.interrupted')
InterruptCall == [op |-> "interrupt", trackId |-> NoTrack, offset |-> 0]
CancelCall(t, o) == [op |-> "cancelResponse", trackId |-> t, offset |-> o]

\* the event arrives; wavStreamPlayer.interrupt() is awaited: lines 466-467
IntrStart ==
  /\ Step("IntrStart")
  /\ mounted /\ clientOpen /\ pcIntr = "idle" /\ CanSuspend
  /\ \E res \in InterruptResults(track) : intrResult' = res
  /\ track' = NoTrack
  /\ pcIntr' = "interrupt"
  /\ intrTrace' = <<InterruptCall>>
  /\ lastCalls' = <<PlayCall("interrupt", track)>>
  /\ BreakPtt
  /\ UNCHANGED <<uiVars, recVars, playerConnected, clientVars,
                 pcConn, pcDisc, pcTurn, turnValue, pcPtt, pcPttEnd, pcSend, sendText,
                 pcToggle, pcUpd, updItems, connHist, fed>>

\* IntrInterruptResolved testing the result instead of its trackId
IntrInterruptResolvedNoTrackTest ==
  /\ Step("IntrInterruptResolved")
  /\ pcIntr = "interrupt"
  /\ IF intrResult.present
       THEN /\ intrTrace' = Append(intrTrace, CancelCall(intrResult.trackId, intrResult.offset))
            /\ lastCalls' = <<CliCall("cancelResponse", clientOpen)>>
            /\ pcIntr' = IF CanSend(clientOpen) THEN "cancel" ELSE "idle"
       ELSE /\ lastCalls' = << >>
            /\ pcIntr' = "idle"
            /\ UNCHANGED intrTrace
  /\ KeepPtt
  /\ UNCHANGED <<uiVars, recVars, playerVars, clientVars,
                 pcConn, pcDisc, pcTurn, turnValue, pcPtt, pcPttEnd, pcSend, sendText,
                 pcToggle, intrResult, pcUpd, updItems, connHist, fed>>

\* interrupt() resolves with intrResult; cancelResponse when it names a track: 468-470
IntrInterruptResolved ==
  /\ Step("IntrInterruptResolved")
  /\ pcIntr = "interrupt"
  /\ IF intrResult.present /\ intrResult.trackId # NoTrack
       THEN /\ intrTrace' = Append(intrTrace, CancelCall(intrResult.trackId, intrResult.offset))
            /\ lastCalls' = <<CliCall("cancelResponse", clientOpen)>>
            /\ pcIntr' = IF CanSend(clientOpen) THEN "cancel" ELSE "idle"
       ELSE /\ lastCalls' = << >>
            /\ pcIntr' = "idle"
            /\ UNCHANGED intrTrace
  /\ KeepPtt
  /\ UNCHANGED <<uiVars, recVars, playerVars, clientVars,
                 pcConn, pcDisc, pcTurn, turnValue, pcPtt, pcPttEnd, pcSend, sendText,
                 pcToggle, intrResult, pcUpd, updItems, connHist, fed>>

\* cancelResponse() resolves: line 470
IntrCancelResolved ==
  /\ Step("IntrCancelResolved")
  /\ pcIntr = "cancel"
  /\ pcIntr' = "idle"
  /\ lastCalls' = << >>
  /\ KeepPtt
  /\ UNCHANGED <<uiVars, recVars, playerVars, clientVars,
                 pcConn, pcDisc, pcTurn, turnValue, pcPtt, pcPttEnd, pcSend, sendText,
                 pcToggle, intrResult, pcUpd, updItems, connHist, intrTrace, fed>>

\* ---------------------------------------------- client.on('conversation.updated')
Last(q) == q[Len(q)]
Elems(q) == {q[i] : i \in 1..Len(q)}

\* The remote client applies a server event to its conversation (a new item, or a
\* change of an existing one) and dispatches 'conversation.updated' with the item:
\* lines 473-486.  audio: the event carries delta.audio; decode: the item is
\* completed and carries audio, so WavRecorder.decode is awaited.
UpdStart(isNew, audio, decode) ==
  /\ Step("UpdStart")
  /\ mounted /\ clientOpen
  /\ isNew => Len(clientItems) < MaxItems
  /\ decode => pcUpd = "idle" /\ CanSuspend
  /\ LET list == IF isNew THEN Append(clientItems, ItemIds[Len(clientItems) + 1])
                          ELSE clientItems IN
     /\ list # << >>
     /\ clientItems' = list
     /\ \E id \in (IF isNew THEN {Last(list)} ELSE Elems(list)) :
          IF audio
            THEN /\ track' = id
                 /\ lastCalls' = <<PlayCall("add16BitPCM", track)>>
            ELSE /\ lastCalls' = << >>
                 /\ UNCHANGED track
     /\ IF decode
          THEN pcUpd' = "decode" /\ updItems' = list /\ UNCHANGED items
          ELSE items' = list /\ UNCHANGED <<pcUpd, updItems>>
  /\ BreakPtt
  /\ UNCHANGED <<isConnected, isRecording, isVADMode, isListening, textMessage,
                 memoryKv, realtimeEvents, timerRef, timers, mounted,
                 recVars, playerConnected, clientOpen, turnDetection,
                 pcConn, pcDisc, pcTurn, turnValue, pcPtt, pcPttEnd, pcSend, sendText,
                 pcToggle, pcIntr, intrResult, connHist, intrTrace, fed>>

\* WavRecorder.decode resolves; the list read at the start is displayed: 484-486
UpdDecodeResolved ==
  /\ Step("UpdDecodeResolved")
  /\ pcUpd = "decode"
  /\ pcUpd' = "idle"
  /\ items' = updItems
  /\ updItems' = << >>
  /\ lastCalls' = << >>
  /\ KeepPtt
  /\ UNCHANGED <<isConnected, isRecording, isVADMode, isListening, textMessage,
                 memoryKv, realtimeEvents, timerRef, timers, mounted,
                 recVars, playerVars, clientVars,
                 pcConn, pcDisc, pcTurn, turnValue, pcPtt, pcPttEnd, pcSend, sendText,
                 pcToggle, pcIntr, intrResult, connHist, intrTrace, fed>>

\* ------------------------------------------------ client.on('realtime.event')
\* lastEvent.count || 0
CountOrZero(e) == IF e.hasCount /\ e.count # 0 THEN e.count ELSE 0

\* Coalesce with the comparison against the last entry lost
CoalesceNoMerge(log, type) ==
  Append(log, [type |-> type, hasCount |-> FALSE, count |-> 0])

\* the state updater of lines 454-463
Coalesce(log, type) ==
  IF log # << >> /\ Last(log).type = type
    THEN Append(SubSeq(log, 1, Len(log) - 1),
                [type |-> type, hasCount |-> TRUE, count |-> CountOrZero(Last(log)) + 1])
    ELSE Append(log, [type |-> type, hasCount |-> FALSE, count |-> 0])

\* the remote client reports an event it sent or received: lines 453-464
RealtimeEvent(type) ==
  /\ Step("RealtimeEvent")
  /\ mounted /\ clientOpen /\ Len(fed) < MaxFed
  /\ realtimeEvents' = Coalesce(realtimeEvents, type)
  /\ fed' = Append(fed, type)
  /\ lastCalls' = << >>
  /\ KeepPtt
  /\ UNCHANGED <<isConnected, isRecording, isVADMode, isListening, textMessage,
                 items, memoryKv, timerRef, timers, mounted,
                 recVars, playerVars, clientVars, pcVars, connHist, intrTrace>>

\* ------------------------------------------------------------------ tools
Keys == {"a", "b"}
Values == {"1", "2"}
DraftTexts == {"", "x"}
OkTrue == "{ok:true}"
EmailUpdated == "{success:true,message:'Email content updated successfully'}"

\* {...memoryKv} with newKv[key] = value dropped into an empty object
SetKeyNoSpread(kv, key, value) == [k \in {key} |-> value]

\* const newKv = {...memoryKv}; newKv[key] = value: lines 419-421
SetKey(kv, key, value) ==
  [k \in DOMAIN kv \cup {key} |-> IF k = key THEN value ELSE kv[k]]

\* the remote client runs the set_memory tool: lines 417-424
SetMemory(key, value) ==
  /\ mounted /\ clientOpen
  /\ memoryKv' = SetKey(memoryKv, key, value)
  /\ lastStep' = "SetMemory"
  /\ lastTool' = [name |-> "set_memory", key |-> key, value |-> value,
                  old |-> IF key \in DOMAIN memoryKv THEN memoryKv[key] ELSE "",
                  ret |-> OkTrue]
  /\ lastCalls' = << >>
  /\ BreakPtt
  /\ UNCHANGED <<isConnected, isRecording, isVADMode, isListening, textMessage,
                 items, realtimeEvents, emailContent, timerRef, timers, mounted,
                 recVars, playerVars, clientVars, pcVars, connHist, intrTrace, fed>>

\* an edit_email_marketing handler that also empties the memory store
EditEmailClearsMemory(subject, body) ==
  /\ mounted /\ clientOpen
  /\ emailContent' = [subject |-> subject, body |-> body]
  /\ memoryKv' = EmptyKv
  /\ lastStep' = "EditEmail"
  /\ lastTool' = [name |-> "edit_email_marketing", key |-> "", value |-> "",
                  old |-> "", ret |-> EmailUpdated]
  /\ lastCalls' = << >>
  /\ BreakPtt
  /\ UNCHANGED <<isConnected, isRecording, isVADMode, isListening, textMessage,
                 items, realtimeEvents, timerRef, timers, mounted,
                 recVars, playerVars, clientVars, pcVars, connHist, intrTrace, fed>>

\* the remote client runs the edit_email_marketing tool: lines 446-449
EditEmail(subject, body) ==
  /\ mounted /\ clientOpen
  /\ emailContent' = [subject |-> subject, body |-> body]
  /\ lastStep' = "EditEmail"
  /\ lastTool' = [name |-> "edit_email_marketing", key |-> "", value |-> "",
                  old |-> "", ret |-> EmailUpdated]
  /\ lastCalls' = << >>
  /\ BreakPtt
  /\ UNCHANGED <<isConnected, isRecording, isVADMode, isListening, textMessage,
                 items, memoryKv, realtimeEvents, timerRef, timers, mounted,
                 recVars, playerVars, clientVars, pcVars, connHist, intrTrace, fed>>

\* the user types in the subject or the body text area: lines 510, 515
EditDraft(field, text) ==
  /\ mounted /\ emailContent[field] # text
  /\ emailContent' = [emailContent EXCEPT ![field] = text]
  /\ lastStep' = "EditDraft"
  /\ lastTool' = NoTool
  /\ lastCalls' = << >>
  /\ BreakPtt
  /\ UNCHANGED <<isConnected, isRecording, isVADMode, isListening, textMessage,
                 items, memoryKv, realtimeEvents, timerRef, timers, mounted,
                 recVars, playerVars, clientVars, pcVars, connHist, intrTrace, fed>>

\* ------------------------------------------------------ client.on('error')
\* an error handler that also drops the connection flag
ErrorEventDisconnects ==
  /\ Step("ErrorEvent")
  /\ mounted /\ clientOpen
  /\ isConnected' = FALSE
  /\ lastCalls' = << >>
  /\ BreakPtt
  /\ UNCHANGED <<isRecording, isVADMode, isListening, textMessage,
                 items, memoryKv, realtimeEvents, timerRef, timers, mounted,
                 recVars, playerVars, clientVars, pcVars, connHist, intrTrace, fed>>

\* the remote client reports an error; console.error(event): line 465
ErrorEvent ==
  /\ Step("ErrorEvent")
  /\ mounted /\ clientOpen
  /\ lastCalls' = << >>
  /\ BreakPtt
  /\ UNCHANGED <<isConnected, isRecording, isVADMode, isListening, textMessage,
                 items, memoryKv, realtimeEvents, timerRef, timers, mounted,
                 recVars, playerVars, clientVars, pcVars, connHist, intrTrace, fed>>

\* ------------------------------------------------------------------ specs
Next ==
  \/ ConnStart
  \/ \E ok \in BOOLEAN : ConnBeginResolved(ok)
  \/ ConnPlayerResolved
  \/ \E ok \in BOOLEAN : ConnClientResolved(ok)
  \/ DiscStart
  \/ DiscEndResolved
  \/ DiscInterruptResolved
  \/ Teardown
  \/ \E value \in TurnValues : TurnStart(value)
  \/ TurnPauseFirstResolved
  \/ \E ok \in BOOLEAN : TurnRecordResolved(ok)
  \/ TurnPauseResolved
  \/ PttStart
  \/ PttInterruptResolved
  \/ \E ok \in BOOLEAN : PttRecordResolved(ok)
  \/ PttEndStart
  \/ PttEndPauseResolved
  \/ \E t \in Texts : TypeText(t)
  \/ SendStart
  \/ SendInterruptResolved

\* the session: every handler a user action starts
Spec == Init /\ [][Next]_vars

\* the remote event handlers of a session
NextEvents ==
  \/ ConnStart
  \/ \E ok \in BOOLEAN : ConnBeginResolved(ok)
  \/ ConnPlayerResolved
  \/ \E ok \in BOOLEAN : ConnClientResolved(ok)
  \/ DiscStart
  \/ DiscEndResolved
  \/ DiscInterruptResolved
  \/ IntrStart
  \/ IntrInterruptResolved
  \/ IntrCancelResolved
  \/ \E isNew, audio, decode \in BOOLEAN : UpdStart(isNew, audio, decode)
  \/ UpdDecodeResolved

SpecEvents == Init /\ [][NextEvents]_vars

\* the event log of a session
NextLog ==
  \/ ConnStart
  \/ \E ok \in BOOLEAN : ConnBeginResolved(ok)
  \/ ConnPlayerResolved
  \/ \E ok \in BOOLEAN : ConnClientResolved(ok)
  \/ DiscStart
  \/ DiscEndResolved
  \/ DiscInterruptResolved
  \/ \E type \in EventTypes : RealtimeEvent(type)

SpecLog == Init /\ [][NextLog]_vars

\* the tools and the error reports of a session
NextTools ==
  \/ ConnStart
  \/ \E ok \in BOOLEAN : ConnBeginResolved(ok)
  \/ ConnPlayerResolved
  \/ \E ok \in BOOLEAN : ConnClientResolved(ok)
  \/ DiscStart
  \/ DiscEndResolved
  \/ DiscInterruptResolved
  \/ \E key \in Keys, value \in Values : SetMemory(key, value)
  \/ \E subject, body \in DraftTexts : EditEmail(subject, body)
  \/ \E field \in {"subject", "body"}, text \in DraftTexts : EditDraft(field, text)
  \/ ErrorEvent

SpecTools == Init /\ [][NextTools]_vars

\* toggleListening next to the connect button and the turn-mode toggle
NextToggle ==
  \/ ConnStart
  \/ \E ok \in BOOLEAN : ConnBeginResolved(ok)
  \/ ConnPlayerResolved
  \/ \E ok \in BOOLEAN : ConnClientResolved(ok)
  \/ DiscStart
  \/ DiscEndResolved
  \/ DiscInterruptResolved
  \/ \E value \in TurnValues : TurnStart(value)
  \/ TurnPauseFirstResolved
  \/ \E ok \in BOOLEAN : TurnRecordResolved(ok)
  \/ TurnPauseResolved
  \/ ToggleStart
  \/ TogglePauseResolved
  \/ \E ok \in BOOLEAN : ToggleRecordResolved(ok)

SpecToggle == Init /\ [][NextToggle]_vars

\* No other handler is suspended when a handler starts, a tool runs or an event
\* arrives; each operation is taken with one input.
StartAlone ==
  /\ InFlight = 0
  /\ \/ ConnStart
     \/ DiscStart
     \/ \E value \in TurnValues : TurnStart(value)
     \/ PttStart
     \/ PttEndStart
     \/ TypeText(<<"h", "i">>)
     \/ SendStart
     \/ IntrStart
     \/ UpdStart(TRUE, TRUE, TRUE)
     \/ ErrorEvent
     \/ \E value \in Values : SetMemory("a", value)
     \/ EditEmail("x", "x")

\* the operations of a session, run one at a time
NextSession ==
  \/ StartAlone
  \/ \E ok \in BOOLEAN : ConnBeginResolved(ok)
  \/ ConnPlayerResolved
  \/ \E ok \in BOOLEAN : ConnClientResolved(ok)
  \/ DiscEndResolved
  \/ DiscInterruptResolved
  \/ TurnPauseFirstResolved
  \/ \E ok \in BOOLEAN : TurnRecordResolved(ok)
  \/ TurnPauseResolved
  \/ PttInterruptResolved
  \/ \E ok \in BOOLEAN : PttRecordResolved(ok)
  \/ PttEndPauseResolved
  \/ SendInterruptResolved
  \/ IntrInterruptResolved
  \/ IntrCancelResolved
  \/ UpdDecodeResolved

SpecSession == Init /\ [][NextSession]_vars

\* ------------------------------------------------------------------ claims
\* the runs of equal neighbours of a sequence, as <<[type, n], ...>>
RECURSIVE Runs(_)
Runs(q) ==
  IF q = << >> THEN << >>
  ELSE LET rest == Runs(SubSeq(q, 1, Len(q) - 1)) IN
       IF rest # << >> /\ Last(rest).type = Last(q)
         THEN Append(SubSeq(rest, 1, Len(rest) - 1),
                     [type |-> Last(q), n |-> Last(rest).n + 1])
         ELSE Append(rest, [type |-> Last(q), n |-> 1])
AllSame(q) == \A i, j \in 1..Len(q) : q[i] = q[j]
Idle == InFlight = 0
CallsOf(ops) == {i \in 1..Len(lastCalls) : lastCalls[i].op \in ops}

\* C1 (as amended): the log holds one entry per run of consecutive events of the
\* same type, in order; the entry of a run of N events has count N - 1, and no
\* count at all when N = 1; an event of a different type appends a new entry.
C1_CoalescedRuns ==
  LET runs == Runs(fed) IN
  /\ Len(realtimeEvents) = Len(runs)
  /\ \A i \in 1..Len(runs) :
       /\ realtimeEvents[i].type = runs[i].type
       /\ realtimeEvents[i].hasCount = (runs[i].n > 1)
       /\ CountOrZero(realtimeEvents[i]) = runs[i].n - 1

\* C1 witness: three events of one type, then one of another type.
C1_Witness ==
  /\ Len(fed) = MaxFed /\ AllSame(SubSeq(fed, 1, Len(fed) - 1))
  /\ Last(fed) # fed[1]
  /\ Len(realtimeEvents) = 2 /\ realtimeEvents[1].count = Len(fed) - 2

\* C1 as stated: N >= 1 consecutive events of one type, fed to an empty log, leave
\* exactly one entry whose repeat count equals N.
C1_CountEqualsN ==
  (fed # << >> /\ AllSame(fed)) =>
    /\ Len(realtimeEvents) = 1
    /\ realtimeEvents[1].hasCount
    /\ realtimeEvents[1].count = Len(fed)

C3_DisconnectMidConnectReleases ==
  (connHist = "cancelled" /\ pcConn = "idle" /\ pcDisc = "idle") =>
    ~processor /\ ~clientOpen /\ ~isConnected

\* C4: after a connect whose client.connect() rejected, the UI shows disconnected
\* and no capture session is left.
C4_FailedConnectReverts ==
  connHist = "remoteFailed" => ~isConnected /\ ~processor

\* C5: connected, in manual mode and nothing else running, a press followed at once
\* by the release leaves, when both handlers have finished, exactly one
\* createResponse request and a recorder that is not recording.
C5_PressReleaseOneResponse ==
  (pttHist = "released" /\ connHist = "connected" /\ pcPtt = "idle" /\ pcPttEnd = "idle") =>
    respCount = 1 /\ ~recording

\* C6: a 'conversation.interrupted' handler calls interrupt() once and then
\* cancelResponse exactly once, with the trackId and offset interrupt() returned,
\* when the result names a track; otherwise it does not call cancelResponse.
C6_CancelMatchesInterrupt ==
  intrTrace # << >> =>
    intrTrace =
      <<InterruptCall>> \o
      (IF pcIntr # "interrupt" /\ intrResult.present /\ intrResult.trackId # NoTrack
         THEN <<CancelCall(intrResult.trackId, intrResult.offset)>>
         ELSE << >>)

\* C6 witness: a handler has finished after cancelling track t1 at offset 500.
C6_Witness ==
  /\ pcIntr = "idle" /\ connHist = "connected"
  /\ intrResult = [present |-> TRUE, trackId |-> ItemIds[1], offset |-> 500]
  /\ intrTrace = <<InterruptCall, CancelCall(ItemIds[1], 500)>>

\* C7: no audio chunk is appended to playback while a 'conversation.interrupted'
\* handler has called interrupt() and has not yet called cancelResponse.
C7_NoAudioDuringInterrupt ==
  CallsOf({"add16BitPCM"}) # {} => pcIntr # "interrupt"

\* C8: isRecording is never true while isVADMode or isListening is true.
C8_RecordingExcludesVAD == ~(isRecording /\ (isVADMode \/ isListening))

\* C9: sendUserMessageContent and createResponse are only called while the remote
\* session is open.
C9_SendOnlyWhenOpen ==
  \A i \in CallsOf({"sendUserMessageContent", "createResponse"}) : lastCalls[i].st = "open"

\* C10: record() is only called while a capture session exists (begin() has
\* resolved and no end() has happened since).
C10_RecordAfterBegin ==
  \A i \in CallsOf({"record"}) : lastCalls[i].st # "ended"


\* ------------------------------------------------------------------- C11
\* the latest step ended a handler with a rejected record(): either the device
\* refused the call (it was not paused) or the awaited promise rejected
RecordRejected ==
  \/ lastStep \in {"PttRecordRejected", "TurnRecordRejected", "ToggleRecordRejected"}
  \/ /\ lastStep \in {"PttInterruptResolved", "TurnStart", "ToggleStart"}
     /\ \E i \in CallsOf({"record"}) : lastCalls[i].st # "paused"

\* C11: when record() rejects during a push-to-talk begin, toggleListening or a
\* switch to VAD, then once the handler has ended isRecording and isListening
\* are false and no duration timer is running.
C11_FailedStartLeavesNoRecordingState ==
  RecordRejected => ~isRecording /\ ~isListening /\ timers = 0


\* ------------------------------------------------------------------- C12
\* C12: a set_memory call with a key the store already holds overwrites that
\* key's value, leaves every other key as it was, and returns {ok: true}.
C12_SetMemoryOverwrites ==
  [][lastStep' = "SetMemory" =>
       LET key == lastTool'.key IN
       /\ DOMAIN memoryKv' = DOMAIN memoryKv \cup {key}
       /\ memoryKv'[key] = lastTool'.value
       /\ \A k \in DOMAIN memoryKv \ {key} : memoryKv'[k] = memoryKv[k]
       /\ lastTool'.ret = OkTrue]_vars

\* C12 witness: key "a" held "1" and now holds "2", next to an untouched key "b".
C12_Witness ==
  /\ lastStep = "SetMemory"
  /\ lastTool.key = "a" /\ lastTool.old = "1" /\ lastTool.value = "2"
  /\ DOMAIN memoryKv = {"a", "b"} /\ memoryKv["a"] = "2"


\* ------------------------------------------------------------------- C13
\* C13 (as amended): the memory store changes only in a set_memory call and at
\* the start of disconnectConversation, which empties it; every other operation
\* leaves it as it was.
C13_MemoryChangedBySetMemoryOrDisconnect ==
  [][/\ memoryKv' # memoryKv => lastStep' \in {"SetMemory", "DiscStart"}
     /\ lastStep' = "DiscStart" => memoryKv' = EmptyKv]_vars

\* C13 witness: a turn-mode switch has run with a non-empty store.
C13_Witness ==
  /\ lastStep = "TurnRecordResolved" /\ memoryKv # EmptyKv /\ isVADMode

\* C13 as stated: only set_memory changes the memory store.
C13_MemoryChangedOnlyBySetMemory ==
  [][memoryKv' # memoryKv => lastStep' = "SetMemory"]_vars


\* ------------------------------------------------------------------- C14
\* C14: when a connect has just completed, the session's turn detection is
\* null (manual) and isVADMode is false, whatever mode was selected before.
C14_FreshConnectIsPushToTalk ==
  (lastStep = "ConnClientResolved" /\ connHist = "connected") =>
    turnDetection = "none" /\ ~isVADMode


\* ------------------------------------------------------------------- C15
\* the latest step of changeTurnEndType sent the session update to manual
SentManualUpdate ==
  /\ lastStep \in {"TurnStart", "TurnPauseFirstResolved"}
  /\ turnValue = "none"
  /\ CallsOf({"updateSession"}) # {}

\* C15: on a switch to manual the capture is no longer recording when the
\* session update (turn_detection null) is sent: a capture that was recording
\* has had its pause completed first.
C15_PauseBeforeManualUpdate ==
  SentManualUpdate =>
    /\ RecStatus(processor, recording) # "recording"
    /\ \A i \in CallsOf({"pause"}) : lastCalls[i].st # "recording"

\* C15 witness: connected and in VAD mode with the capture recording, the
\* switch to manual has awaited the pause and then sent the update.
C15_Witness ==
  /\ lastStep = "TurnPauseFirstResolved" /\ turnValue = "none"
  /\ connHist = "connected" /\ turnDetection = "none" /\ ~isVADMode
  /\ lastCalls[1].op = "updateSession" /\ lastCalls[1].st = "open"


\* ------------------------------------------------------------------- C16
\* C16: a remote 'error' event is logged and nothing else: the connection
\* state, the turn mode, the recording and listening flags, the items, the
\* memory store and the email draft are unchanged, no adapter is called
\* (no reconnect, disconnect or retry) and no handler is started.
C16_ErrorEventOnlyLogged ==
  [][lastStep' = "ErrorEvent" =>
       /\ UNCHANGED <<isConnected, isVADMode, isRecording, isListening,
                      items, memoryKv, emailContent>>
       /\ UNCHANGED <<recVars, playerVars, clientVars, pcVars>>
       /\ lastCalls' = << >>]_vars

\* C16 witness: an error arrived in a connected session holding a memory
\* entry and an edited draft.
C16_Witness ==
  /\ lastStep = "ErrorEvent" /\ connHist = "connected" /\ isConnected /\ clientOpen
  /\ memoryKv # EmptyKv /\ emailContent # EmptyDraft


\* ------------------------------------------------------------------- C17
\* C17: a disconnect of a session that is already disconnected (no connect in
\* flight, the client closed) completes without error and commands no end or
\* pause on a capture device that has no session.
C17_DisconnectIdempotent ==
  (lastStep = "DiscStart" /\ pcConn = "idle" /\ lastCalls[1].st = "closed") =>
    /\ \A i \in CallsOf({"end", "pause"}) : lastCalls[i].st # "ended"
    /\ connHist # "disconnectFailed"


\* ------------------------------------------------------------------- C18
\* C18: toggleListening acts only in VAD mode.  Invoked outside VAD mode it
\* calls neither the capture device nor the remote client; invoked while
\* listening it ends, after the pause, with exactly one createResponse and
\* not listening; invoked while not listening it requests no response.
C18_ToggleOnlyInVADMode ==
  /\ (lastStep = "ToggleStart" /\ ~isVADMode) => lastCalls = << >>
  /\ lastStep = "TogglePauseResolved" =>
       /\ Cardinality(CallsOf({"createResponse"})) = 1
       /\ (pcTurn = "idle" => ~isListening)
  /\ lastStep \in {"ToggleRecordResolved", "ToggleRecordRejected"} =>
       CallsOf({"createResponse"}) = {}


\* ------------------------------------------------------------------- C19
\* the latest step ended a changeTurnEndType call whose awaited calls resolved,
\* in a mounted page whose session is connected, no other handler suspended
TurnCompleted ==
  /\ lastStep \in {"TurnRecordResolved", "TurnPauseResolved"}
  /\ mounted /\ connHist = "connected" /\ Idle

\* C19: when changeTurnEndType has completed, the capture is recording and
\* isListening is true exactly when the requested mode is VAD and the remote
\* client is connected, and otherwise the capture is not recording and
\* isListening is false; one call commands pause() at most once.
C19_TurnSwitchPostCondition ==
  /\ TurnCompleted =>
       IF turnValue = "server_vad" /\ clientOpen
         THEN RecStatus(processor, recording) = "recording" /\ isListening
         ELSE RecStatus(processor, recording) # "recording" /\ ~isListening
  /\ lastStep = "TurnPauseFirstResolved" => CallsOf({"pause"}) = {}


\* ------------------------------------------------------------------- C20
\* C20: once the 'conversation.updated' handlers have run, also when one was
\* suspended in the audio decode while later events arrived, the displayed
\* items are the conversation as read for the event that arrived last.
C20_ItemsFollowLatestEvent ==
  (lastStep \in {"UpdStart", "UpdDecodeResolved"} /\ pcUpd = "idle"
     /\ connHist = "connected") =>
    items = clientItems

\* ------------------------------------------------------------------- C21
\* C21: whenever no handler is suspended, isRecording or isListening being
\* true implies that the capture device has a session and is recording; and
\* when disconnectConversation has completed, both flags are false and no
\* push-to-talk duration timer is running.
C21_CaptureFlagsAgreeWithDevice ==
  /\ Idle => ((isRecording \/ isListening) =>
                RecStatus(processor, recording) = "recording")
  /\ (lastStep = "DiscInterruptResolved" /\ connHist = "disconnected") =>
       ~isRecording /\ ~isListening /\ timers = 0

====
